---- MODULE Spec2Model ----
(***************************************************************************)
(* Model of the desktop widgets application (src/main.py): the pomodoro    *)
(* engine (class PomodoroWidget), the collections of the data document     *)
(* with the widgets that edit them, the widget configuration, the views'   *)
(* date navigation, and DataManager with the two files.                    *)
(*                                                                         *)
(* The widgets are independent of each other, so each specification lets   *)
(* the state of one part vary and holds the rest as construction left it:  *)
(*   Spec       the pomodoro engine and its part of the data document;     *)
(*   SpecData   the calendar events, todos, plans and widget config;       *)
(*   SpecDates  the month and week navigation of the views;                *)
(*   SpecSave   save_data written to the file one chunk at a time;         *)
(*   SpecFair   the pomodoro engine with its callbacks run fairly and a    *)
(*              user who at some moment leaves the running timer alone.    *)
(*                                                                         *)
(* Every handler is one action.  A handler is written as an operator from  *)
(* the state record before the call to the state record after it, so that  *)
(* the calls the code makes (toggle_timer -> run_timer -> timer_complete   *)
(* -> save_data) are operator applications.                                *)
(*                                                                         *)
(* timer_complete ends with flash_window() and messagebox.showinfo(),      *)
(* which run the event loop; every assignment of timer_complete is made    *)
(* before them and none of its callers assigns anything after it returns,  *)
(* so a handler dispatched from inside them is the next action here.       *)
(*                                                                         *)
(* self.settings is the dict stored under data["pomodoro_settings"], so    *)
(* one variable stands for both.  A document without a "pomodoro_history"  *)
(* key behaves as one with an empty history (lines 1173, 1336-1337) and is *)
(* the empty function here.                                                *)
(***************************************************************************)
EXTENDS Integers, Sequences, FiniteSets, TLC

VARIABLES
    settings,          \* self.settings, the same dict as data["pomodoro_settings"]
    is_running,        \* self.is_running
    is_break,          \* self.is_break (FALSE: Focus, TRUE: Break)
    time_left,         \* self.time_left, seconds
    sessions_today,    \* self.sessions_today
    pomodoro_history,  \* data_manager.data["pomodoro_history"], date -> count
    pending,           \* run_timer callbacks registered with after(1000, ...), oldest first;
                       \* an entry is TRUE when reset_timer ran after it was registered
    file,              \* the content of DATA_FILE
    today,             \* the date datetime.now() gives
    run,               \* "new" until the first handler runs, "started" when that handler
                       \* was a start and only callbacks ran since, "alone" once the
                       \* running timer is left to its callbacks for good, "off" otherwise
    event,             \* what the last handler reported: the messagebox it showed, or
                       \* "settings_stored" when update_settings accepted its input
    ticks,             \* callbacks run while run = "started"
    before,            \* pomodoro_history.get(today, 0) as that start found it
    data,              \* data_manager.data: calendar_events, todos and the three plan maps
    config,            \* data_manager.config
    config_file,       \* the content of CONFIG_FILE
    expanded,          \* self.expanded of each widget
    selected_date,     \* CalendarWidget.selected_date
    day_current_date,  \* DayPlannerWidget.current_date, as a date
    op,                \* the handler of the calendar's events or of the day plans,
                       \* or delete_todo, that ran last and whether it changed the
                       \* document; "other" after any other handler
    now,               \* the date datetime.now() gave the views at construction
    calendar_current_date,   \* CalendarWidget.current_date
    monthly_current_date,    \* MonthlyPlannerWidget.current_date
    current_week_start,      \* WeeklyPlannerWidget.current_week_start
    on_disk,           \* the chunks DATA_FILE holds while save_data is followed
                       \* chunk by chunk
    pc,                \* where the process is in that save: "idle", "saving",
                       \* "stopped"; "unfollowed" where a save is one step
    previous           \* the document of the last save that completed or load

timerVars == <<settings, is_running, is_break, time_left, sessions_today,
               pomodoro_history, pending, today, run, ticks, before>>

dataVars == <<data, config, config_file, expanded, selected_date, day_current_date, op>>

dateVars == <<now, calendar_current_date, monthly_current_date, current_week_start>>

saveVars == <<on_disk, pc, previous>>

vars == <<settings, is_running, is_break, time_left, sessions_today,
          pomodoro_history, pending, file, today, run, event,
          ticks, before, data, config, config_file, expanded, selected_date,
          day_current_date, op, now, calendar_current_date, monthly_current_date,
          current_week_start, on_disk, pc, previous>>

(******************************** bounds ***********************************)
MaxPending == 2     \* callbacks registered at one time
MaxSessions == 2    \* sessions_today
MaxDay == 2         \* dates are 1 .. MaxDay; the widget is constructed on date 1
MaxEntries == 2     \* entries the two documents hold: events, todos, plans, config keys
MaxYears == 1       \* the month views stay in 2024 .. 2024 + MaxYears
MaxWeeks == 1       \* weeks the weekly view moves away from the week of construction

(************************** program constants ******************************)
SecondsPerMinute == 60
FocusLow == 1
FocusHigh == 90
BreakLow == 1
BreakHigh == 30

Dates == 1 .. MaxDay
FirstDay == CHOOSE d \in Dates : \A e \in Dates : d <= e

(***************************** int(text) ***********************************)
Digits == <<"0", "1", "2", "3", "4", "5", "6", "7", "8", "9">>

IsDigit(c) == \E i \in 1 .. 10 : Digits[i] = c

DigitVal(c) == (CHOOSE i \in 1 .. 10 : Digits[i] = c) - 1

\* The whitespace of the texts followed here.
Whitespace == {" ", "\n", "\t"}

RECURSIVE LStrip(_)
LStrip(t) == IF t # <<>> /\ Head(t) \in Whitespace THEN LStrip(Tail(t)) ELSE t

RECURSIVE RStrip(_)
RStrip(t) ==
    IF t # <<>> /\ t[Len(t)] \in Whitespace
    THEN RStrip(SubSeq(t, 1, Len(t) - 1))
    ELSE t

RECURSIVE DecVal(_)
DecVal(t) ==
    IF t = <<>> THEN 0 ELSE 10 * DecVal(SubSeq(t, 1, Len(t) - 1)) + DigitVal(t[Len(t)])

\* int(s) of a str: surrounding blanks are dropped, one sign is allowed, the
\* rest must be one or more decimal digits; anything else raises ValueError.
parse_int(text) ==
    LET t == RStrip(LStrip(text))
        signed == t # <<>> /\ Head(t) \in {"+", "-"}
        body == IF signed THEN Tail(t) ELSE t
    IN  IF body # <<>> /\ \A i \in 1 .. Len(body) : IsDigit(body[i])
        THEN [ok |-> TRUE,
              val |-> IF signed /\ Head(t) = "-" THEN 0 - DecVal(body) ELSE DecVal(body)]
        ELSE [ok |-> FALSE, val |-> 0]

\* The texts the two spin boxes can hold when update_settings runs.
FocusTexts == { <<"1">>, <<" ", "2">>, <<"0">>, <<"9", "1">>, <<"a">> }
BreakTexts == { <<"+", "2">>, <<"0">>, <<"3", "1">>, <<"2", ".", "5">> }

\* int(s) for the texts of the spin boxes, worked out once.
IntTable == [t \in FocusTexts \cup BreakTexts |-> parse_int(t)]

int(text) == IntTable[text]

(******************************* the dates *********************************)
\* The years the views are followed through.
Years == 2024 .. (2024 + MaxYears)

\* datetime's calendar: the proleptic Gregorian one.
is_leap(year) == year % 4 = 0 /\ (year % 100 # 0 \/ year % 400 = 0)

days_in_month(year, month) ==
    IF month = 2 THEN (IF is_leap(year) THEN 29 ELSE 28)
    ELSE IF month \in {4, 6, 9, 11} THEN 30 ELSE 31

RECURSIVE days_before_month(_, _)
days_before_month(year, month) ==
    IF month = 1 THEN 0
    ELSE days_before_month(year, month - 1) + days_in_month(year, month - 1)

days_before_year(year) ==
    LET y == year - 1 IN y * 365 + (y \div 4) - (y \div 100) + (y \div 400)

\* date.toordinal(): 1 for 0001-01-01.
toordinal(d) == days_before_year(d.year) + days_before_month(d.year, d.month) + d.day

\* date.fromordinal(n), for the ordinals of Years.
fromordinal(n) ==
    LET year == CHOOSE y \in Years :
                    days_before_year(y) < n /\ n <= days_before_year(y + 1)
        rest == n - days_before_year(year)
        month == CHOOSE m \in 1 .. 12 :
                     /\ days_before_month(year, m) < rest
                     /\ rest <= days_before_month(year, m) + days_in_month(year, m)
    IN  [year |-> year, month |-> month, day |-> rest - days_before_month(year, month)]

InYears(n) == days_before_year(2024) < n /\ n <= days_before_year(2024 + MaxYears + 1)

\* date.weekday(): 0 for Monday, 6 for Sunday.
weekday(d) == (toordinal(d) + 6) % 7

\* date + timedelta(days=n).
plus_days(d, n) == fromordinal(toordinal(d) + n)

\* date.replace(year=..., month=...): the day is kept, and a day the month
\* does not have raises ValueError.
replace(d, year, month) ==
    IF d.day <= days_in_month(year, month)
    THEN [ok |-> TRUE, val |-> [year |-> year, month |-> month, day |-> d.day]]
    ELSE [ok |-> FALSE, val |-> d]

\* "%02d".
Pad2(n) == IF n < 10 THEN "0" \o ToString(n) ELSE ToString(n)

\* strftime("%Y-%m-%d"), and the f"{year}-{month:02d}-{day:02d}" of the
\* calendar and the monthly planner, for four-digit years.
strftime(d) == ToString(d.year) \o "-" \o Pad2(d.month) \o "-" \o Pad2(d.day)

(************************* the views' navigation ***************************)
\* A handler of a view is an operator from the record of the views' dates to
\* the record after it; event is "ValueError" when the handler raised.
\* get_week_start subtracting one day too many.
get_week_start_day_before(date) == plus_days(date, 0 - weekday(date) - 1)

get_week_start(date) == plus_days(date, 0 - weekday(date))

\* prev_month and next_month of the calendar and of the monthly planner are
\* the same code on the view's current_date.
prev_month(d) ==
    IF d.month = 1 THEN replace(d, d.year - 1, 12) ELSE replace(d, d.year, d.month - 1)

\* next_month keeping the year in December.
next_month_same_year(d) ==
    IF d.month = 12 THEN replace(d, d.year, 1) ELSE replace(d, d.year, d.month + 1)

next_month(d) ==
    IF d.month = 12 THEN replace(d, d.year + 1, 1) ELSE replace(d, d.year, d.month + 1)

prev_week(start) == plus_days(start, 0 - 7)

next_week(start) == plus_days(start, 7)

goto_this_week(date) == get_week_start(date)

(**************************** the data file ********************************)
Doc(s) ==
    [calendar_events |-> s.data.calendar_events,
     todos |-> s.data.todos,
     day_plans |-> s.data.day_plans,
     weekly_plans |-> s.data.weekly_plans,
     monthly_plans |-> s.data.monthly_plans,
     pomodoro_history |-> s.pomodoro_history,
     pomodoro_settings |-> s.settings]

\* The document load_data returns when the file gives none.
DefaultDoc ==
    [calendar_events |-> <<>>,
     todos |-> <<>>,
     day_plans |-> <<>>,
     weekly_plans |-> <<>>,
     monthly_plans |-> <<>>,
     pomodoro_history |-> <<>>,
     pomodoro_settings |-> [focus |-> 25, break |-> 5]]

\* The keys of the document in the order json.dump writes them.
DocKeys ==
    <<"calendar_events", "todos", "day_plans", "weekly_plans", "monthly_plans",
      "pomodoro_history", "pomodoro_settings">>

\* The chunks json.dump hands to f.write for a document, one write each: the
\* opening brace, one chunk for every key with its value, the closing brace.
json_dump(doc) ==
    <<[tok |-> "{"]>>
    \o [i \in 1 .. Len(DocKeys) |->
            [tok |-> "pair", key |-> DocKeys[i], value |-> doc[DocKeys[i]]]]
    \o <<[tok |-> "}"]>>

\* json.load of the chunks a file holds: a text that is not one whole object
\* raises JSONDecodeError.
json_load(t) ==
    LET whole == /\ Len(t) >= 2
                 /\ t[1].tok = "{"
                 /\ t[Len(t)].tok = "}"
                 /\ \A i \in 2 .. Len(t) - 1 : t[i].tok = "pair"
    IN  IF whole
        THEN [ok |-> TRUE,
              val |-> [k \in {t[i].key : i \in 2 .. Len(t) - 1} |->
                          t[CHOOSE i \in 2 .. Len(t) - 1 : t[i].key = k].value]]
        ELSE [ok |-> FALSE, val |-> DefaultDoc]

\* load_data on a file that exists: the bare except turns a text json.load
\* rejects into the default document.
load_data(t) == IF json_load(t).ok THEN json_load(t).val ELSE DefaultDoc

\* json.dump of the document into DATA_FILE opened with 'w'.  The writes of
\* this specification succeed; the except branch is not taken.
save_data(s) == [s EXCEPT !.file = Doc(s)]

(**************************** PomodoroWidget *******************************)
Get(h, d) == IF d \in DOMAIN h THEN h[d] ELSE 0

Put(h, d, v) == [k \in DOMAIN h \cup {d} |-> IF k = d THEN v ELSE h[k]]

get_today_sessions(h, d) == Get(h, d)

\* timer_complete without its save_data call.
timer_complete_unsaved(s) ==
    LET stopped == [s EXCEPT !.is_running = FALSE]
    IN  IF ~stopped.is_break
        THEN LET counted == [stopped EXCEPT !.sessions_today = @ + 1]
                 stored == [counted EXCEPT !.pomodoro_history =
                                Put(@, counted.today, counted.sessions_today)]
             IN  [stored EXCEPT !.is_break = TRUE,
                                !.time_left = stored.settings.break * SecondsPerMinute,
                                !.event = "pomodoro_complete"]
        ELSE [stopped EXCEPT !.is_break = FALSE,
                             !.time_left = stopped.settings.focus * SecondsPerMinute,
                             !.event = "break_over"]

\* timer_complete whose break branch takes the break duration again.
timer_complete_break_duration(s) ==
    LET stopped == [s EXCEPT !.is_running = FALSE]
    IN  IF ~stopped.is_break
        THEN LET counted == [stopped EXCEPT !.sessions_today = @ + 1]
                 stored == [counted EXCEPT !.pomodoro_history =
                                Put(@, counted.today, counted.sessions_today)]
                 written == save_data(stored)
             IN  [written EXCEPT !.is_break = TRUE,
                                 !.time_left = written.settings.break * SecondsPerMinute,
                                 !.event = "pomodoro_complete"]
        ELSE [stopped EXCEPT !.is_break = FALSE,
                             !.time_left = stopped.settings.break * SecondsPerMinute,
                             !.event = "break_over"]

\* timer_complete that writes the count under the date of construction.
timer_complete_construction_date(s) ==
    LET stopped == [s EXCEPT !.is_running = FALSE]
    IN  IF ~stopped.is_break
        THEN LET counted == [stopped EXCEPT !.sessions_today = @ + 1]
                 stored == [counted EXCEPT !.pomodoro_history =
                                Put(@, FirstDay, counted.sessions_today)]
                 written == save_data(stored)
             IN  [written EXCEPT !.is_break = TRUE,
                                 !.time_left = written.settings.break * SecondsPerMinute,
                                 !.event = "pomodoro_complete"]
        ELSE [stopped EXCEPT !.is_break = FALSE,
                             !.time_left = stopped.settings.focus * SecondsPerMinute,
                             !.event = "break_over"]

timer_complete(s) ==
    LET stopped == [s EXCEPT !.is_running = FALSE]
    IN  IF ~stopped.is_break
        THEN LET counted == [stopped EXCEPT !.sessions_today = @ + 1]
                 stored == [counted EXCEPT !.pomodoro_history =
                                Put(@, counted.today, counted.sessions_today)]
                 written == save_data(stored)
             IN  [written EXCEPT !.is_break = TRUE,
                                 !.time_left = written.settings.break * SecondsPerMinute,
                                 !.event = "pomodoro_complete"]
        ELSE [stopped EXCEPT !.is_break = FALSE,
                             !.time_left = stopped.settings.focus * SecondsPerMinute,
                             !.event = "break_over"]

\* run_timer that takes the second off without registering the next call.
run_timer_once(s) ==
    IF s.is_running /\ s.time_left > 0
    THEN [s EXCEPT !.time_left = @ - 1]
    ELSE IF s.time_left = 0
         THEN timer_complete(s)
         ELSE s

run_timer(s) ==
    IF s.is_running /\ s.time_left > 0
    THEN [s EXCEPT !.time_left = @ - 1, !.pending = Append(@, FALSE)]
    ELSE IF s.time_left = 0
         THEN timer_complete(s)
         ELSE s

toggle_timer(s) ==
    LET flipped == [s EXCEPT !.is_running = ~@]
    IN  IF flipped.is_running THEN run_timer(flipped) ELSE flipped

skip_timer(s) == timer_complete([s EXCEPT !.time_left = 0])

\* reset_timer that takes the break duration.
reset_timer_break_duration(s) ==
    [s EXCEPT !.is_running = FALSE,
              !.is_break = FALSE,
              !.time_left = s.settings.break * SecondsPerMinute,
              !.pending = [i \in 1 .. Len(@) |-> TRUE]]

\* reset_timer that also clears the session counter.
reset_timer_clears_sessions(s) ==
    [s EXCEPT !.is_running = FALSE,
              !.is_break = FALSE,
              !.sessions_today = 0,
              !.time_left = s.settings.focus * SecondsPerMinute,
              !.pending = [i \in 1 .. Len(@) |-> TRUE]]

reset_timer(s) ==
    [s EXCEPT !.is_running = FALSE,
              !.is_break = FALSE,
              !.time_left = s.settings.focus * SecondsPerMinute,
              !.pending = [i \in 1 .. Len(@) |-> TRUE]]

\* update_settings that stores the focus minutes before it looks at the
\* break minutes.
update_settings_early_store(s, focus_text, break_text) ==
    LET new_focus == int(focus_text)
        new_break == int(break_text)
        focus_set == [s EXCEPT !.settings.focus = new_focus.val]
    IN  IF ~new_focus.ok THEN [s EXCEPT !.event = "invalid_setting"]
        ELSE IF ~new_break.ok THEN [s EXCEPT !.event = "invalid_setting"]
        ELSE IF new_focus.val < FocusLow \/ new_focus.val > FocusHigh
             THEN [s EXCEPT !.event = "invalid_setting"]
        ELSE IF new_break.val < BreakLow \/ new_break.val > BreakHigh
             THEN [focus_set EXCEPT !.event = "invalid_setting"]
        ELSE LET break_set == [focus_set EXCEPT !.settings.break = new_break.val,
                                                !.event = "settings_stored"]
                 written == save_data(break_set)
             IN  IF ~written.is_running
                 THEN [written EXCEPT !.time_left =
                           (IF ~written.is_break THEN written.settings.focus
                                                 ELSE written.settings.break)
                           * SecondsPerMinute]
                 ELSE written

\* update_settings that sets time_left without asking whether the timer runs.
update_settings_always_sets_time(s, focus_text, break_text) ==
    LET new_focus == int(focus_text)
        new_break == int(break_text)
    IN  IF ~new_focus.ok THEN [s EXCEPT !.event = "invalid_setting"]
        ELSE IF ~new_break.ok THEN [s EXCEPT !.event = "invalid_setting"]
        ELSE IF new_focus.val < FocusLow \/ new_focus.val > FocusHigh
             THEN [s EXCEPT !.event = "invalid_setting"]
        ELSE IF new_break.val < BreakLow \/ new_break.val > BreakHigh
             THEN [s EXCEPT !.event = "invalid_setting"]
        ELSE LET focus_set == [s EXCEPT !.settings.focus = new_focus.val]
                 break_set == [focus_set EXCEPT !.settings.break = new_break.val,
                                                !.event = "settings_stored"]
                 written == save_data(break_set)
             IN  [written EXCEPT !.time_left =
                      (IF ~written.is_break THEN written.settings.focus
                                            ELSE written.settings.break)
                      * SecondsPerMinute]

\* A ValueError of int() or of a range check leaves the try block for the
\* except clause, which shows the error box.
update_settings(s, focus_text, break_text) ==
    LET new_focus == int(focus_text)
        new_break == int(break_text)
    IN  IF ~new_focus.ok THEN [s EXCEPT !.event = "invalid_setting"]
        ELSE IF ~new_break.ok THEN [s EXCEPT !.event = "invalid_setting"]
        ELSE IF new_focus.val < FocusLow \/ new_focus.val > FocusHigh
             THEN [s EXCEPT !.event = "invalid_setting"]
        ELSE IF new_break.val < BreakLow \/ new_break.val > BreakHigh
             THEN [s EXCEPT !.event = "invalid_setting"]
        ELSE LET focus_set == [s EXCEPT !.settings.focus = new_focus.val]
                 break_set == [focus_set EXCEPT !.settings.break = new_break.val,
                                                !.event = "settings_stored"]
                 written == save_data(break_set)
             IN  IF ~written.is_running
                 THEN [written EXCEPT !.time_left =
                           (IF ~written.is_break THEN written.settings.focus
                                                 ELSE written.settings.break)
                           * SecondsPerMinute]
                 ELSE written

(************************ the document's collections ***********************)
\* dict without the key k.
Without(h, k) == [x \in DOMAIN h \ {k} |-> h[x]]

\* list.pop(idx) for 0 <= idx < len(list): the list without that element.
pop(list, idx) == SubSeq(list, 1, idx) \o SubSeq(list, idx + 2, Len(list))

\* str.strip().
strip(t) == RStrip(LStrip(t))

\* simpledialog.askstring: <<>> is None (the dialog was cancelled), <<e>> is
\* the string e.
None == <<>>

\* The events of the listbox: calendar_events.get(date, []).
events_of(s) ==
    IF s.selected_date \in DOMAIN s.data.calendar_events
    THEN s.data.calendar_events[s.selected_date]
    ELSE <<>>

\* add_event that puts the new event first.
add_event_prepends(s, answer) ==
    IF answer # None /\ answer[1] # ""
    THEN save_data([s EXCEPT !.data.calendar_events =
                        Put(@, s.selected_date, <<answer[1]>> \o events_of(s))])
    ELSE s

\* add_event that stores the list even when nothing was entered.
add_event_creates_list(s, answer) ==
    IF answer # None
    THEN save_data([s EXCEPT !.data.calendar_events =
                        Put(@, s.selected_date,
                            IF answer[1] # "" THEN Append(events_of(s), answer[1])
                            ELSE events_of(s))])
    ELSE s

add_event(s, answer) ==
    IF answer # None /\ answer[1] # ""
    THEN save_data([s EXCEPT !.data.calendar_events =
                        Put(@, s.selected_date, Append(events_of(s), answer[1]))])
    ELSE s

\* selection is event_listbox.curselection(): the indices selected.
delete_event(s, selection) ==
    IF selection # <<>> /\ selection[1] < Len(events_of(s))
    THEN LET events == pop(events_of(s), selection[1])
         IN  save_data([s EXCEPT !.data.calendar_events =
                            IF events = <<>> THEN Without(@, s.selected_date)
                            ELSE Put(@, s.selected_date, events)])
    ELSE s

\* clear_events that deletes the key without looking for it: del raises
\* KeyError when the date has none.
clear_events_unguarded(s, yes) ==
    IF yes
    THEN IF s.selected_date \in DOMAIN s.data.calendar_events
         THEN save_data([s EXCEPT !.data.calendar_events = Without(@, s.selected_date)])
         ELSE [s EXCEPT !.event = "KeyError"]
    ELSE s

\* yes is the answer of messagebox.askyesno, asked only when the date has a key.
clear_events(s, yes) ==
    IF s.selected_date \in DOMAIN s.data.calendar_events /\ yes
    THEN save_data([s EXCEPT !.data.calendar_events = Without(@, s.selected_date)])
    ELSE s

select_date(s, day) ==
    [s EXCEPT !.selected_date =
         ToString(s.calendar_current_date.year) \o "-"
         \o Pad2(s.calendar_current_date.month) \o "-" \o Pad2(day)]

(******************************** TodoWidget *******************************)
\* add_todo that appends what the entry holds, unstripped.
add_todo_unstripped(s, entry) ==
    LET stripped == strip(entry)
    IN  IF stripped # <<>>
        THEN save_data([s EXCEPT !.data.todos =
                            Append(@, [text |-> entry, done |-> FALSE])])
        ELSE s

add_todo(s, entry) ==
    LET stripped == strip(entry)
    IN  IF stripped # <<>>
        THEN save_data([s EXCEPT !.data.todos =
                            Append(@, [text |-> stripped, done |-> FALSE])])
        ELSE s

\* data["todos"][idx] with idx beyond the list raises IndexError before
\* anything is assigned or saved.
toggle_todo(s, idx, var) ==
    IF idx < Len(s.data.todos)
    THEN save_data([s EXCEPT !.data.todos[idx + 1].done = var])
    ELSE [s EXCEPT !.event = "IndexError"]

\* delete_todo that pops the last entry whatever the index.
delete_todo_last(s, idx) ==
    IF idx < Len(s.data.todos)
    THEN save_data([s EXCEPT !.data.todos = pop(@, Len(@) - 1)])
    ELSE [s EXCEPT !.event = "IndexError"]

delete_todo(s, idx) ==
    IF idx < Len(s.data.todos)
    THEN save_data([s EXCEPT !.data.todos = pop(@, idx)])
    ELSE [s EXCEPT !.event = "IndexError"]

clear_completed(s) ==
    save_data([s EXCEPT !.data.todos = SelectSeq(@, LAMBDA t : ~t.done)])

clear_all(s, yes) ==
    IF yes THEN save_data([s EXCEPT !.data.todos = <<>>]) ELSE s

(******************************* the planners ******************************)
\* The hours create_content makes slots for.
shown_hours(s) == IF s.expanded["day_planner"] THEN 5 .. 23 ELSE 7 .. 19

\* The key with the hour written in two digits.
day_key_padded(date, hour) == strftime(date) \o "_" \o Pad2(hour)

\* f"{self.current_date}_{hour}".
day_key(date, hour) == strftime(date) \o "_" \o ToString(hour)

\* The key create_time_slot gives the slot of an hour.
slot_key(s, hour) == day_key(s.day_current_date, hour)

\* The text create_time_slot puts in the slot's entry.
slot_text(s, hour) ==
    IF slot_key(s, hour) \in DOMAIN s.data.day_plans
    THEN s.data.day_plans[slot_key(s, hour)]
    ELSE <<>>

\* What the three save handlers do to their map with the stripped text.
store(plans, key, stripped) ==
    IF stripped # <<>> THEN Put(plans, key, stripped)
    ELSE IF key \in DOMAIN plans THEN Without(plans, key)
    ELSE plans

\* save_slot that stores what the entry holds, unstripped.
save_slot_unstripped(s, key, entry) ==
    save_data([s EXCEPT !.data.day_plans =
                   IF entry # <<>> THEN Put(@, key, entry)
                   ELSE IF key \in DOMAIN @ THEN Without(@, key) ELSE @])

save_slot(s, key, entry) ==
    save_data([s EXCEPT !.data.day_plans = store(@, key, strip(entry))])

\* text_widget.get("1.0", tk.END) is what was typed and the newline the Text
\* widget ends with.
save_day_weekly(s, date_str, typed) ==
    save_data([s EXCEPT !.data.weekly_plans =
                   store(@, date_str, strip(typed \o <<"\n">>))])

save_day_monthly(s, date_str, typed) ==
    save_data([s EXCEPT !.data.monthly_plans =
                   store(@, date_str, strip(typed \o <<"\n">>))])

prev_day(s) == [s EXCEPT !.day_current_date = plus_days(@, 0 - 1)]

next_day(s) == [s EXCEPT !.day_current_date = plus_days(@, 1)]

goto_today(s) == [s EXCEPT !.day_current_date = s.now]

(******************************** BaseWidget *******************************)
save_config(s) == [s EXCEPT !.config_file = s.config]

save_position(s, w, position) ==
    save_config([s EXCEPT !.config.positions = Put(@, w, position)])

\* save_size that writes the size where the position is kept.
save_size_into_positions(s, w, size) ==
    save_config([s EXCEPT !.config.positions = Put(@, w, size)])

save_size(s, w, size) ==
    save_config([s EXCEPT !.config.sizes = Put(@, w, size)])

\* A <Configure> event of the widget's own window.
on_configure(s, w, position, size) == save_size(save_position(s, w, position), w, size)

\* color is what colorchooser.askcolor gave: None when cancelled.
change_color(s, w, color) ==
    IF color # None
    THEN save_config([s EXCEPT !.config.colors = Put(@, w, color[1])])
    ELSE s

\* toggle_expand without its save_config call.
toggle_expand_unsaved(s, w) ==
    LET flipped == [s EXCEPT !.expanded[w] = ~@]
    IN  [flipped EXCEPT !.config.expanded = Put(@, w, flipped.expanded[w])]

toggle_expand(s, w) ==
    LET flipped == [s EXCEPT !.expanded[w] = ~@]
    IN  save_config([flipped EXCEPT !.config.expanded = Put(@, w, flipped.expanded[w])])

reset_positions(s, yes) ==
    IF yes
    THEN save_config([s EXCEPT !.config.positions = <<>>, !.config.sizes = <<>>])
    ELSE s

(************************** the state machine ******************************)
\* The state a handler starts from: it has reported nothing yet.
State ==
    [settings |-> settings, is_running |-> is_running, is_break |-> is_break,
     time_left |-> time_left, sessions_today |-> sessions_today,
     pomodoro_history |-> pomodoro_history, pending |-> pending, file |-> file,
     today |-> today, event |-> "none",
     data |-> data, config |-> config, config_file |-> config_file,
     expanded |-> expanded, selected_date |-> selected_date,
     day_current_date |-> day_current_date, now |-> now,
     calendar_current_date |-> calendar_current_date]

Apply(n) ==
    /\ n.sessions_today <= MaxSessions
    /\ Len(n.pending) <= MaxPending
    /\ settings' = n.settings
    /\ is_running' = n.is_running
    /\ is_break' = n.is_break
    /\ time_left' = n.time_left
    /\ sessions_today' = n.sessions_today
    /\ pomodoro_history' = n.pomodoro_history
    /\ pending' = n.pending
    /\ file' = n.file
    /\ event' = n.event
    /\ today' = today
    /\ UNCHANGED <<dataVars, dateVars, saveVars>>

\* The settings found in the document: minutes an earlier update_settings
\* stored.  Short ones keep the countdown small; the 25 and 5 of a first run
\* behave the same with longer countdowns.
LoadSettings == [focus : {1, 2}, break : {1, 2}]

\* Histories written by earlier runs on the date of construction: none, or
\* one session.
LoadHistories == { [d \in {} |-> 0], [d \in {FirstDay} |-> 1] }

\* The date the views are constructed on in the specifications that do not
\* draw it: a Wednesday.
Construction == [year |-> 2024, month |-> 6, day |-> 12]

\* The views' __init__ on the date d.
DatesInit(d) ==
    /\ now = d
    /\ calendar_current_date = d
    /\ monthly_current_date = d
    /\ current_week_start = get_week_start(d)
    /\ selected_date = strftime(d)
    /\ day_current_date = d

\* The widgets this model keeps the configuration of.
Widgets == {"todo", "day_planner"}

\* load_config without a file, and BaseWidget.__init__ on it: the default
\* colour of every widget, nothing else, no widget expanded.
DefaultConfig ==
    [colors |-> [w \in Widgets |-> "default"],
     positions |-> <<>>, sizes |-> <<>>, expanded |-> <<>>]

ConfigInit ==
    /\ config = DefaultConfig
    /\ config_file = DefaultConfig
    /\ expanded = [w \in Widgets |-> FALSE]
    /\ op = [name |-> "none", changed |-> FALSE]

\* The collections of the default document.
DefaultData ==
    [calendar_events |-> <<>>, todos |-> <<>>, day_plans |-> <<>>,
     weekly_plans |-> <<>>, monthly_plans |-> <<>>]

\* The document in memory.
Memory ==
    Doc([data |-> data, pomodoro_history |-> pomodoro_history, settings |-> settings])

\* The specifications that take a save as one step do not follow the chunks.
SaveUnfollowed ==
    /\ on_disk = <<>>
    /\ pc = "unfollowed"
    /\ previous = DefaultDoc

\* PomodoroWidget.__init__ on the document load_data read from the file.
Init ==
    /\ today = FirstDay
    /\ settings \in LoadSettings
    /\ pomodoro_history \in LoadHistories
    /\ data = DefaultData
    /\ ConfigInit
    /\ DatesInit(Construction)
    /\ is_running = FALSE
    /\ is_break = FALSE
    /\ time_left = settings.focus * SecondsPerMinute
    /\ sessions_today = get_today_sessions(pomodoro_history, today)
    /\ pending = <<>>
    /\ run = "new"
    /\ event = "none"
    /\ ticks = 0
    /\ before = 0
    /\ file = Memory
    /\ SaveUnfollowed

\* The start/pause button.
ToggleTimer ==
    /\ Apply(toggle_timer(State))
    /\ IF run = "new"
       THEN run' = "started" /\ before' = Get(pomodoro_history, today)
       ELSE run' = "off" /\ before' = 0
    /\ ticks' = 0

\* The oldest registered callback comes due and run_timer runs.
Tick ==
    /\ pending # <<>>
    /\ Apply(run_timer([State EXCEPT !.pending = Tail(@)]))
    /\ ticks' = IF run = "started" THEN ticks + 1 ELSE 0
    /\ UNCHANGED <<run, before>>

SkipTimer ==
    /\ Apply(skip_timer(State))
    /\ run' = "off"
    /\ ticks' = 0
    /\ before' = 0

ResetTimer ==
    /\ Apply(reset_timer(State))
    /\ run' = "off"
    /\ ticks' = 0
    /\ before' = 0

\* update_settings with the two spin boxes holding the given texts.
UpdateSettingsWith(focus_text, break_text) ==
    /\ Apply(update_settings(State, focus_text, break_text))
    /\ run' = "off"
    /\ ticks' = 0
    /\ before' = 0

UpdateSettings ==
    \E focus_text \in FocusTexts, break_text \in BreakTexts :
        UpdateSettingsWith(focus_text, break_text)

\* The clock passes midnight while the process keeps running: no handler
\* runs, datetime.now() gives the next date from here on.
Midnight ==
    /\ today < MaxDay
    /\ today' = today + 1
    /\ UNCHANGED <<settings, is_running, is_break, time_left, sessions_today,
                   pomodoro_history, pending, file, run, event,
                   ticks, before>>
    /\ UNCHANGED <<dataVars, dateVars, saveVars>>

Next ==
    \/ ToggleTimer
    \/ Tick
    \/ SkipTimer
    \/ ResetTimer
    \/ UpdateSettings
    \/ Midnight

Spec == Init /\ [][Next]_vars

TypeOK ==
    /\ settings \in [focus : FocusLow .. FocusHigh, break : BreakLow .. BreakHigh]
    /\ is_running \in BOOLEAN
    /\ is_break \in BOOLEAN
    /\ time_left \in 0 .. FocusHigh * SecondsPerMinute
    /\ sessions_today \in 0 .. MaxSessions
    /\ DOMAIN pomodoro_history \subseteq Dates
    /\ pending \in Seq(BOOLEAN)
    /\ today \in Dates

(*********************** the collections and the config ********************)
\* The pomodoro engine as constructed on the default document, for the
\* specifications that do not follow it.
TimerIdle ==
    /\ today = FirstDay
    /\ settings = DefaultDoc.pomodoro_settings
    /\ pomodoro_history = <<>>
    /\ is_running = FALSE
    /\ is_break = FALSE
    /\ time_left = settings.focus * SecondsPerMinute
    /\ sessions_today = 0
    /\ pending = <<>>
    /\ run = "new"
    /\ event = "none"
    /\ ticks = 0
    /\ before = 0

RECURSIVE Total(_)
Total(lists) ==
    IF DOMAIN lists = {} THEN 0
    ELSE LET k == CHOOSE x \in DOMAIN lists : TRUE
         IN  Len(lists[k]) + Total(Without(lists, k))

\* What the two documents of the state n hold beyond the default ones.
Entries(n) ==
    Total(n.data.calendar_events) + Len(n.data.todos)
    + Cardinality(DOMAIN n.data.day_plans)
    + Cardinality(DOMAIN n.data.weekly_plans)
    + Cardinality(DOMAIN n.data.monthly_plans)
    + Cardinality(DOMAIN n.config.positions)
    + Cardinality(DOMAIN n.config.sizes)
    + Cardinality(DOMAIN n.config.expanded)
    + Cardinality({w \in Widgets : n.config.colors[w] # "default"})

ApplyData(n) ==
    /\ data' = n.data
    /\ config' = n.config
    /\ config_file' = n.config_file
    /\ expanded' = n.expanded
    /\ selected_date' = n.selected_date
    /\ day_current_date' = n.day_current_date
    /\ file' = n.file
    /\ event' = n.event
    /\ Entries(n) <= MaxEntries
    /\ UNCHANGED <<timerVars, dateVars, saveVars>>

\* The handlers op tells apart; the others are "other" to it.
Followed == {"add_event", "delete_event", "clear_events", "save_slot", "delete_todo"}

\* The handler called name ran and left the state n.
Ran(name, n) ==
    /\ ApplyData(n)
    /\ op' = IF name \in Followed
             THEN [name |-> name, changed |-> n.data # data]
             ELSE [name |-> "other", changed |-> FALSE]

\* The cells of the calendar that are clicked: the day of construction and
\* the day after it.
CalendarDays == {Construction.day, Construction.day + 1}

\* What askstring returns: cancelled, nothing entered, or an event.
EventAnswers == {None, <<"">>, <<"a">>, <<"b">>}

\* The rows an index can come from: those of the list and, from a display
\* that is out of date, the ones after them.
Indices == 0 .. MaxEntries

\* What the entry of the todo widget holds when add_todo runs.
TodoEntries == { <<" ">>, <<"t">>, <<" ", "u", " ">> }

\* What a slot of the day planner holds when it is saved.
PlanEntries == { <<>>, <<" ">>, <<"x">>, <<" ", "y">> }

\* What was typed in a day of the weekly or of the monthly planner.
TypedEntries == { <<>>, <<"x">>, <<" ", "y">> }

\* The slots of the day planner that are edited: 5 is shown only expanded.
Hours == {5, 7, 19}

\* The dates the day planner is moved through.
PlannerDates == {Construction, plus_days(Construction, 1)}

\* The columns of the weekly planner and the days of the monthly planner
\* that are edited.
Columns == {0, 1}
MonthDays == {1}

Positions == { <<0, 0>>, <<40, 0>> }
Sizes == { <<300, 350>> }
Colors == {None, <<"red">>}

InitData ==
    /\ TimerIdle
    /\ data = DefaultData
    /\ ConfigInit
    /\ DatesInit(Construction)
    /\ file = Memory
    /\ SaveUnfollowed

SelectDate == \E day \in CalendarDays : Ran("select_date", select_date(State, day))

AddEventWith(answer) == Ran("add_event", add_event(State, answer))

AddEvent == \E answer \in EventAnswers : AddEventWith(answer)

DeleteEventWith(selection) == Ran("delete_event", delete_event(State, selection))

DeleteEvent ==
    \E selection \in {<<>>} \cup {<<i>> : i \in Indices} : DeleteEventWith(selection)

ClearEvents == \E yes \in BOOLEAN : Ran("clear_events", clear_events(State, yes))

AddTodo == \E entry \in TodoEntries : Ran("add_todo", add_todo(State, entry))

ToggleTodoWith(idx, var) == Ran("toggle_todo", toggle_todo(State, idx, var))

ToggleTodo == \E idx \in Indices, var \in BOOLEAN : ToggleTodoWith(idx, var)

DeleteTodoWith(idx) == Ran("delete_todo", delete_todo(State, idx))

DeleteTodo == \E idx \in Indices : DeleteTodoWith(idx)

ClearCompleted == Ran("clear_completed", clear_completed(State))

ClearAll == \E yes \in BOOLEAN : Ran("clear_all", clear_all(State, yes))

\* The slot of an hour loses the focus, or Return is pressed in it.
SaveSlotWith(hour, entry) ==
    /\ hour \in shown_hours(State)
    /\ Ran("save_slot", save_slot(State, slot_key(State, hour), entry))

SaveSlot == \E hour \in Hours, entry \in PlanEntries : SaveSlotWith(hour, entry)

PrevDay ==
    /\ prev_day(State).day_current_date \in PlannerDates
    /\ Ran("prev_day", prev_day(State))

NextDay ==
    /\ next_day(State).day_current_date \in PlannerDates
    /\ Ran("next_day", next_day(State))

GotoToday == Ran("goto_today", goto_today(State))

\* The date of a column of the weekly planner and of a day of the monthly
\* planner, as the views write it.
week_date_str(column) == strftime(plus_days(current_week_start, column))

month_date_str(day) == strftime([monthly_current_date EXCEPT !.day = day])

\* A day of the weekly planner loses the focus.
SaveDayWeeklyWith(column, typed) ==
    Ran("save_day_weekly", save_day_weekly(State, week_date_str(column), typed))

SaveDayWeekly ==
    \E column \in Columns, typed \in TypedEntries : SaveDayWeeklyWith(column, typed)

\* A day of the monthly planner loses the focus.
SaveDayMonthlyWith(day, typed) ==
    Ran("save_day_monthly", save_day_monthly(State, month_date_str(day), typed))

SaveDayMonthly ==
    \E day \in MonthDays, typed \in TypedEntries : SaveDayMonthlyWith(day, typed)

OnConfigure ==
    \E w \in Widgets, position \in Positions, size \in Sizes :
        Ran("on_configure", on_configure(State, w, position, size))

ChangeColor ==
    \E w \in Widgets, color \in Colors : Ran("change_color", change_color(State, w, color))

ToggleExpand == \E w \in Widgets : Ran("toggle_expand", toggle_expand(State, w))

ResetPositions == \E yes \in BOOLEAN : Ran("reset_positions", reset_positions(State, yes))

NextData ==
    \/ SelectDate
    \/ AddEvent
    \/ DeleteEvent
    \/ ClearEvents
    \/ AddTodo
    \/ ToggleTodo
    \/ DeleteTodo
    \/ ClearCompleted
    \/ ClearAll
    \/ SaveSlot
    \/ PrevDay
    \/ NextDay
    \/ GotoToday
    \/ SaveDayWeekly
    \/ SaveDayMonthly
    \/ OnConfigure
    \/ ChangeColor
    \/ ToggleExpand
    \/ ResetPositions

SpecData == InitData /\ [][NextData]_vars

(************************** the views' navigation **************************)
Date(year, month, day) == [year |-> year, month |-> month, day |-> day]

\* The dates the views are constructed on: every day of one week, the middle
\* and the end of December and of January, and a leap day.
RefDates ==
    {Date(2024, 6, day) : day \in 10 .. 16}
    \cup {Date(2024, 12, 15), Date(2024, 12, 31), Date(2025, 1, 15),
          Date(2025, 1, 31), Date(2024, 2, 29)}

InitDates ==
    /\ TimerIdle
    /\ data = DefaultData
    /\ ConfigInit
    /\ \E d \in RefDates : DatesInit(d)
    /\ file = Memory
    /\ SaveUnfollowed

\* What the handlers of the views leave alone.
DatesFrame == UNCHANGED <<timerVars, dataVars, saveVars, file, now>>

\* A handler of a month view ends with the date it gave the view, or with the
\* ValueError replace raised.
Raised(r) == IF r.ok THEN "none" ELSE "ValueError"

CalendarPrevMonth ==
    LET r == prev_month(calendar_current_date)
    IN  /\ r.val.year \in Years
        /\ calendar_current_date' = r.val
        /\ event' = Raised(r)
        /\ UNCHANGED <<monthly_current_date, current_week_start>>
        /\ DatesFrame

CalendarNextMonth ==
    LET r == next_month(calendar_current_date)
    IN  /\ r.val.year \in Years
        /\ calendar_current_date' = r.val
        /\ event' = Raised(r)
        /\ UNCHANGED <<monthly_current_date, current_week_start>>
        /\ DatesFrame

MonthlyPrevMonth ==
    LET r == prev_month(monthly_current_date)
    IN  /\ r.val.year \in Years
        /\ monthly_current_date' = r.val
        /\ event' = Raised(r)
        /\ UNCHANGED <<calendar_current_date, current_week_start>>
        /\ DatesFrame

MonthlyNextMonth ==
    LET r == next_month(monthly_current_date)
    IN  /\ r.val.year \in Years
        /\ monthly_current_date' = r.val
        /\ event' = Raised(r)
        /\ UNCHANGED <<calendar_current_date, current_week_start>>
        /\ DatesFrame

GotoThisMonth ==
    /\ monthly_current_date' = now
    /\ event' = "none"
    /\ UNCHANGED <<calendar_current_date, current_week_start>>
    /\ DatesFrame

\* The weekly view stays within MaxWeeks weeks of the week of construction.
Near(start) ==
    LET away == toordinal(start) - toordinal(get_week_start(now))
    IN  away <= 7 * MaxWeeks /\ 0 - away <= 7 * MaxWeeks

PrevWeek ==
    /\ InYears(toordinal(current_week_start) - 7)
    /\ Near(prev_week(current_week_start))
    /\ current_week_start' = prev_week(current_week_start)
    /\ event' = "none"
    /\ UNCHANGED <<calendar_current_date, monthly_current_date>>
    /\ DatesFrame

NextWeek ==
    /\ InYears(toordinal(current_week_start) + 7)
    /\ Near(next_week(current_week_start))
    /\ current_week_start' = next_week(current_week_start)
    /\ event' = "none"
    /\ UNCHANGED <<calendar_current_date, monthly_current_date>>
    /\ DatesFrame

GotoThisWeek ==
    /\ current_week_start' = goto_this_week(now)
    /\ event' = "none"
    /\ UNCHANGED <<calendar_current_date, monthly_current_date>>
    /\ DatesFrame

NextDates ==
    \/ CalendarPrevMonth
    \/ CalendarNextMonth
    \/ MonthlyPrevMonth
    \/ MonthlyNextMonth
    \/ GotoThisMonth
    \/ PrevWeek
    \/ NextWeek
    \/ GotoThisWeek

SpecDates == InitDates /\ [][NextDates]_vars

(*************************** a save, chunk by chunk ************************)
\* The todos the document holds when the process starts.
LoadTodos == { <<>>, <<[text |-> <<"t">>, done |-> FALSE]>> }

InitSave ==
    /\ TimerIdle
    /\ \E todos \in LoadTodos : data = [DefaultData EXCEPT !.todos = todos]
    /\ ConfigInit
    /\ DatesInit(Construction)
    /\ file = Memory
    /\ on_disk = json_dump(Memory)
    /\ pc = "idle"
    /\ previous = Memory

\* What a save and a start leave alone.
SaveFrame ==
    UNCHANGED <<is_running, is_break, pending, today, run, ticks, before, event,
                file, config, config_file, expanded, selected_date,
                day_current_date, op, dateVars>>

\* The handlers followed to their save_data call: these call it exactly when
\* they change the document.
SaveOps ==
    {add_todo(State, entry) : entry \in TodoEntries}
    \cup {delete_todo(State, idx) : idx \in Indices}

\* A handler changes the document and save_data opens the file with 'w',
\* which empties it.
Open ==
    /\ pc = "idle"
    /\ \E n \in SaveOps :
           /\ n.data # data
           /\ Len(n.data.todos) <= MaxEntries
           /\ data' = n.data
    /\ on_disk' = <<>>
    /\ pc' = "saving"
    /\ UNCHANGED <<previous, settings, pomodoro_history, time_left, sessions_today>>
    /\ SaveFrame

\* The same, but open raises (the file cannot be written): the except branch
\* prints and the file is as it was.
OpenFails ==
    /\ pc = "idle"
    /\ \E n \in SaveOps :
           /\ n.data # data
           /\ Len(n.data.todos) <= MaxEntries
           /\ data' = n.data
    /\ UNCHANGED <<on_disk, pc, previous, settings, pomodoro_history, time_left,
                   sessions_today>>
    /\ SaveFrame

\* json.dump writes its next chunk.
Write ==
    /\ pc = "saving"
    /\ Len(on_disk) < Len(json_dump(Memory))
    /\ on_disk' = Append(on_disk, json_dump(Memory)[Len(on_disk) + 1])
    /\ UNCHANGED <<data, pc, previous, settings, pomodoro_history, time_left,
                   sessions_today>>
    /\ SaveFrame

\* json.dump has written every chunk; the with block closes the file.
Close ==
    /\ pc = "saving"
    /\ Len(on_disk) = Len(json_dump(Memory))
    /\ pc' = "idle"
    /\ previous' = Memory
    /\ UNCHANGED <<data, on_disk, settings, pomodoro_history, time_left,
                   sessions_today>>
    /\ SaveFrame

\* A write raises (the disk is full): the with block closes the file as it
\* is and the except branch prints.
WriteFails ==
    /\ pc = "saving"
    /\ Len(on_disk) < Len(json_dump(Memory))
    /\ pc' = "idle"
    /\ UNCHANGED <<data, on_disk, previous, settings, pomodoro_history, time_left,
                   sessions_today>>
    /\ SaveFrame

\* The process stops: it is killed, or the machine goes down.
Stop ==
    /\ pc \in {"idle", "saving"}
    /\ pc' = "stopped"
    /\ UNCHANGED <<data, on_disk, previous, settings, pomodoro_history, time_left,
                   sessions_today>>
    /\ SaveFrame

\* The application is started again: load_data, then the widgets' __init__.
Start ==
    /\ pc = "stopped"
    /\ LET loaded == load_data(on_disk)
       IN  /\ data' = [k \in DOMAIN DefaultData |-> loaded[k]]
           /\ settings' = loaded.pomodoro_settings
           /\ pomodoro_history' = loaded.pomodoro_history
           /\ time_left' = loaded.pomodoro_settings.focus * SecondsPerMinute
           /\ sessions_today' = get_today_sessions(loaded.pomodoro_history, today)
           /\ previous' = loaded
    /\ pc' = "idle"
    /\ UNCHANGED on_disk
    /\ SaveFrame

NextSave ==
    \/ Open
    \/ OpenFails
    \/ Write
    \/ Close
    \/ WriteFails
    \/ Stop
    \/ Start

SpecSave == InitSave /\ [][NextSave]_vars

(******************** the timer left to its callbacks **********************)
\* No handler but the callbacks runs any more.
LeftAlone == run = "alone"

\* The user decides to leave the running timer alone.  A Focus phase that
\* the session bound would not let complete is not left alone.
LeaveAlone ==
    /\ ~LeftAlone
    /\ is_running
    /\ is_break \/ sessions_today < MaxSessions
    /\ run' = "alone"
    /\ UNCHANGED <<settings, is_running, is_break, time_left, sessions_today,
                   pomodoro_history, pending, file, today, event, ticks, before>>
    /\ UNCHANGED <<dataVars, dateVars, saveVars>>

ToggleTimerAttended == ~LeftAlone /\ ToggleTimer

SkipTimerAttended == ~LeftAlone /\ SkipTimer

ResetTimerAttended == ~LeftAlone /\ ResetTimer

UpdateSettingsAttended == ~LeftAlone /\ UpdateSettings

NextFair ==
    \/ ToggleTimerAttended
    \/ SkipTimerAttended
    \/ ResetTimerAttended
    \/ UpdateSettingsAttended
    \/ LeaveAlone
    \/ Tick

\* Tk's event loop runs a registered callback once it is due.
SpecFair == Init /\ [][NextFair]_vars /\ WF_vars(Tick)

(******************************* the claims ********************************)
\* The duration in seconds the stored settings give the phase b.
FullTime(cfg, b) == (IF b THEN cfg.break ELSE cfg.focus) * SecondsPerMinute

\* A step in which the current phase completes: skip, a callback that finds
\* time_left = 0, or a start that finds time_left = 0.
Completes ==
    \/ SkipTimer
    \/ Tick /\ time_left = 0
    \/ ToggleTimer /\ ~is_running /\ time_left = 0

\* The texts of the two spin boxes are not both integers in range.
Invalid(focus_text, break_text) ==
    \/ ~int(focus_text).ok
    \/ ~int(break_text).ok
    \/ int(focus_text).val \notin 1 .. 90
    \/ int(break_text).val \notin 1 .. 30

\* C1: from the state after construction with focus_minutes = 1, the 60th
\* callback after start turns Focus into Break, leaves pomodoro_history[today]
\* exactly 1 above what it was before start, and sets time_left to
\* break_minutes * 60.
C1_SixtyTicks ==
    [][(Tick /\ run = "started" /\ ticks = 59 /\ settings.focus = 1)
       => /\ ~is_break /\ is_break'
          /\ Get(pomodoro_history', today') = before + 1
          /\ time_left' = settings.break * 60]_vars

\* C2: toggle_timer flips is_running and leaves is_break, time_left and
\* pomodoro_history as they were.
C2_ToggleFrame ==
    [][ToggleTimer
       => /\ is_running' = ~is_running
          /\ is_break' = is_break
          /\ time_left' = time_left
          /\ pomodoro_history' = pomodoro_history]_vars

\* C3: the value stored for a date is its value at load time plus the number
\* of Focus completions on that date: a Focus completion on date d raises the
\* value of d by exactly 1 (from 0 to 1 when d has no key) and leaves the other
\* dates alone, and no other step changes pomodoro_history.
C3_PerDayCount ==
    [][IF Completes /\ ~is_break
       THEN /\ Get(pomodoro_history', today) = Get(pomodoro_history, today) + 1
            /\ \A d \in Dates \ {today} :
                   Get(pomodoro_history', d) = Get(pomodoro_history, d)
       ELSE pomodoro_history' = pomodoro_history]_vars

\* C4: a phase completion in Focus, by expiry or by skip, raises
\* sessions_today by exactly 1, stores it as pomodoro_history[today], saves it
\* to the file, switches to Break with time_left = break_minutes * 60 and stops
\* the timer.
C4_FocusCompletion ==
    [][(Completes /\ ~is_break)
       => /\ sessions_today' = sessions_today + 1
          /\ today \in DOMAIN pomodoro_history'
          /\ pomodoro_history'[today] = sessions_today'
          /\ file'.pomodoro_history = pomodoro_history'
          /\ is_break'
          /\ time_left' = settings.break * 60
          /\ ~is_running']_vars

C4_Witness ==
    /\ event = "pomodoro_complete"
    /\ is_break /\ ~is_running
    /\ sessions_today >= 1
    /\ Get(file.pomodoro_history, today) = sessions_today

\* C5: a phase completion in Break switches to Focus with
\* time_left = focus_minutes * 60, stops the timer and leaves sessions_today
\* and pomodoro_history unchanged.
C5_BreakCompletion ==
    [][(Completes /\ is_break)
       => /\ ~is_break'
          /\ time_left' = settings.focus * 60
          /\ ~is_running'
          /\ sessions_today' = sessions_today
          /\ pomodoro_history' = pomodoro_history]_vars

C5_Witness ==
    /\ event = "break_over"
    /\ ~is_break /\ ~is_running
    /\ time_left = settings.focus * 60

\* C6: skip_timer in any state completes the phase within the call (opposite
\* phase, full time of the new phase, timer stopped, pomodoro_history[today]
\* grown by 1 after Focus and by 0 after Break), and a callback that comes due
\* while the timer is stopped above zero changes nothing, so no stale callback
\* completes a second phase.
C6_Skip ==
    [][/\ SkipTimer
          => /\ is_break' = ~is_break
             /\ time_left' = FullTime(settings, is_break')
             /\ time_left' > 0
             /\ ~is_running'
             /\ Get(pomodoro_history', today)
                    = Get(pomodoro_history, today) + (IF is_break THEN 0 ELSE 1)
       /\ (Tick /\ ~is_running /\ time_left > 0)
          => UNCHANGED <<is_break, time_left, is_running, sessions_today,
                         pomodoro_history>>]_vars

\* C7: reset_timer stops the timer in Focus with time_left = focus_minutes * 60
\* of the stored settings and leaves sessions_today, pomodoro_history and the
\* settings unchanged, and a callback registered before the reset does not
\* change time_left when it runs.
C7_Reset ==
    [][/\ ResetTimer
          => /\ ~is_running' /\ ~is_break'
             /\ time_left' = settings.focus * 60
             /\ UNCHANGED <<sessions_today, pomodoro_history, settings, file>>
       /\ (Tick /\ Head(pending))
          => time_left' = time_left]_vars

\* The text pairs update_settings has to reject.
InvalidPairs == { p \in FocusTexts \X BreakTexts : Invalid(p[1], p[2]) }

\* A step of update_settings: the one handler that reports one of these two.
Reported == event' \in {"invalid_setting", "settings_stored"}

\* C8: update_settings with a text that is no integer, or with focus minutes
\* outside 1..90 or break minutes outside 1..30, shows the error box and leaves
\* the settings, the file, time_left, is_break and is_running as they were.
C8_InvalidRejected ==
    [][Reported
       => \/ /\ event' = "invalid_setting"
             /\ UNCHANGED <<settings, file, time_left, is_break, is_running>>
          \/ \A p \in InvalidPairs : ~UpdateSettingsWith(p[1], p[2])]_vars

C8_Witness ==
    /\ event = "invalid_setting"
    /\ is_running /\ is_break
    /\ file.pomodoro_settings = settings

\* C9: an accepted update_settings (one that reports settings_stored) stores
\* and saves the integers its two texts stand for as the new settings; with the
\* timer stopped time_left becomes 60 times the new duration of the current
\* phase, with the timer running time_left stays; the stored durations are
\* what the next phase completion or reset takes.
C9_ValidAccepted ==
    [][/\ event' = "settings_stored"
          => \A p \in FocusTexts \X BreakTexts :
                 UpdateSettingsWith(p[1], p[2])
                 => /\ settings' = [focus |-> int(p[1]).val, break |-> int(p[2]).val]
                    /\ file'.pomodoro_settings = settings'
                    /\ UNCHANGED <<is_running, is_break>>
                    /\ IF is_running
                       THEN time_left' = time_left
                       ELSE time_left' = 60 * (IF is_break THEN settings'.break
                                                           ELSE settings'.focus)
       /\ (Completes \/ ResetTimer)
          => time_left' = FullTime(settings, is_break')]_vars

C9_Witness ==
    /\ event = "settings_stored"
    /\ is_running /\ ~is_break
    /\ time_left > settings.focus * 60
    /\ file.pomodoro_settings = settings

\* C10: no step lowers sessions_today or the value of pomodoro_history of any
\* date, and a step that changes either is a Focus completion, which raises
\* sessions_today and pomodoro_history[today].
C10_NeverDecreases ==
    [][/\ sessions_today' >= sessions_today
       /\ \A d \in Dates : Get(pomodoro_history', d) >= Get(pomodoro_history, d)
       /\ (sessions_today' # sessions_today \/ pomodoro_history' # pomodoro_history)
          => /\ Completes /\ ~is_break
             /\ sessions_today' > sessions_today
             /\ Get(pomodoro_history', today) > Get(pomodoro_history, today)]_vars

C10_Witness ==
    /\ sessions_today >= 2
    /\ Get(pomodoro_history, today) = sessions_today
    /\ event = "break_over"

\* The text holds nothing but whitespace.
Blank(t) == \A i \in 1 .. Len(t) : t[i] \in Whitespace

\* The step left both documents, the file and the report as they were.
Untouched == data' = data /\ file' = file /\ event' = "none"

\* The handler that ends in the state n left the document, the file and the
\* report as they were.
Same(n) == n.data = data /\ n.file = file /\ n.event = "none"

\* C11: the file holds the complete previous document or the complete new one
\* at every instant of a save, also when the process stops or a write fails
\* part-way, so that a load at that instant gives one of the two.
C11_AtomicSave == load_data(on_disk) \in {previous, Memory}

\* C12: between operations the data file holds the data document in memory
\* and the config file the config in memory.
C12_SavedBeforeReturn == file = Memory /\ config_file = config

C12_Witness == data.todos # <<>> /\ DOMAIN config.expanded # {}

\* C13: from the default document, after every add_event, delete_event and
\* clear_events each key of calendar_events has a non-empty list, and a
\* delete_event that removes the only event of the date deletes its key.
C13_NoEmptyList ==
    [][/\ \A d \in DOMAIN data'.calendar_events : data'.calendar_events[d] # <<>>
       /\ (op'.name = "delete_event" /\ op'.changed /\ Len(events_of(State)) = 1)
          => selected_date \notin DOMAIN data'.calendar_events]_vars

C13_Witness ==
    /\ op = [name |-> "delete_event", changed |-> TRUE]
    /\ selected_date \notin DOMAIN data.calendar_events
    /\ data.calendar_events # <<>>

\* C14: from the default document, no key of day_plans, weekly_plans or
\* monthly_plans ever has the empty string, and a write of an empty or
\* whitespace-only text leaves its key absent.
C14_NoEmptyPlan ==
    /\ \A k \in DOMAIN data.day_plans : data.day_plans[k] # <<>>
    /\ \A k \in DOMAIN data.weekly_plans : data.weekly_plans[k] # <<>>
    /\ \A k \in DOMAIN data.monthly_plans : data.monthly_plans[k] # <<>>
    /\ \A hour \in Hours, entry \in PlanEntries :
           Blank(entry)
           => slot_key(State, hour)
              \notin DOMAIN save_slot(State, slot_key(State, hour), entry).data.day_plans
    /\ \A column \in Columns, typed \in TypedEntries :
           Blank(typed)
           => week_date_str(column)
              \notin DOMAIN save_day_weekly(State, week_date_str(column),
                                            typed).data.weekly_plans
    /\ \A day \in MonthDays, typed \in TypedEntries :
           Blank(typed)
           => month_date_str(day)
              \notin DOMAIN save_day_monthly(State, month_date_str(day),
                                             typed).data.monthly_plans

C14_Witness ==
    /\ op = [name |-> "save_slot", changed |-> TRUE]
    /\ data.day_plans = <<>>

\* The map after is the map before with the value v at the key k.
Replaced(before_map, after_map, k, v) ==
    /\ DOMAIN after_map = DOMAIN before_map \cup {k}
    /\ after_map[k] = v
    /\ \A x \in DOMAIN before_map \ {k} : after_map[x] = before_map[x]

\* C15: an added event goes to the end of the list of its date, which is
\* created when absent, and the events before it and the other dates stay as
\* they were; a plan written to a key replaces the value of that key and
\* leaves the other keys as they were.
C15_AddEntry ==
    /\ \A answer \in EventAnswers \ {None, <<"">>} :
           LET n == add_event(State, answer)
           IN  /\ Replaced(data.calendar_events, n.data.calendar_events,
                           selected_date, Append(events_of(State), answer[1]))
               /\ n.data = [data EXCEPT !.calendar_events = n.data.calendar_events]
    /\ \A hour \in Hours, entry \in PlanEntries :
           LET n == save_slot(State, slot_key(State, hour), entry)
           IN  ~Blank(entry)
               => /\ Replaced(data.day_plans, n.data.day_plans,
                              slot_key(State, hour), strip(entry))
                  /\ n.data = [data EXCEPT !.day_plans = n.data.day_plans]
    /\ \A column \in Columns, typed \in TypedEntries :
           LET n == save_day_weekly(State, week_date_str(column), typed)
           IN  ~Blank(typed)
               => /\ Replaced(data.weekly_plans, n.data.weekly_plans,
                              week_date_str(column), strip(typed))
                  /\ n.data = [data EXCEPT !.weekly_plans = n.data.weekly_plans]
    /\ \A day \in MonthDays, typed \in TypedEntries :
           LET n == save_day_monthly(State, month_date_str(day), typed)
           IN  ~Blank(typed)
               => /\ Replaced(data.monthly_plans, n.data.monthly_plans,
                              month_date_str(day), strip(typed))
                  /\ n.data = [data EXCEPT !.monthly_plans = n.data.monthly_plans]

C15_Witness ==
    /\ op = [name |-> "add_event", changed |-> TRUE]
    /\ events_of(State) = <<"a", "b">>

\* C16: delete_todo and toggle_todo with an index at or beyond the end of
\* todos, and delete_event with a selected index at or beyond the end of the
\* date's events, change nothing and complete without an error.
C16_OutOfRange ==
    [][/\ \A idx \in Indices :
              (idx >= Len(data.todos) /\ DeleteTodoWith(idx)) => Untouched
       /\ \A idx \in Indices, var \in BOOLEAN :
              (idx >= Len(data.todos) /\ ToggleTodoWith(idx, var)) => Untouched
       /\ \A idx \in Indices :
              (idx >= Len(events_of(State)) /\ DeleteEventWith(<<idx>>))
              => Untouched]_vars

\* C17: clear_events and delete_event on a date without events, and a write
\* of empty text to a plan key that is not in its map, leave the whole
\* document as it was and raise nothing; a removal done twice leaves what
\* the removal done once leaves.
C17_RemoveAbsent ==
    /\ selected_date \notin DOMAIN data.calendar_events
       => /\ \A yes \in BOOLEAN : Same(clear_events(State, yes))
          /\ \A idx \in Indices : Same(delete_event(State, <<idx>>))
    /\ LET once == clear_events(State, TRUE)
       IN  /\ clear_events(once, TRUE).data = once.data
           /\ clear_events(once, TRUE).event = "none"
    /\ \A hour \in Hours, entry \in PlanEntries :
           LET key == slot_key(State, hour)
               once == save_slot(State, key, entry)
           IN  Blank(entry)
               => /\ key \notin DOMAIN data.day_plans => Same(once)
                  /\ save_slot(once, key, entry).data = once.data
                  /\ save_slot(once, key, entry).event = "none"
    /\ \A column \in Columns, typed \in TypedEntries :
           (Blank(typed) /\ week_date_str(column) \notin DOMAIN data.weekly_plans)
           => Same(save_day_weekly(State, week_date_str(column), typed))
    /\ \A day \in MonthDays, typed \in TypedEntries :
           (Blank(typed) /\ month_date_str(day) \notin DOMAIN data.monthly_plans)
           => Same(save_day_monthly(State, month_date_str(day), typed))

C17_Witness ==
    /\ op = [name |-> "clear_events", changed |-> FALSE]
    /\ selected_date \notin DOMAIN data.calendar_events
    /\ data # DefaultData

\* The keys of the slots that are edited, written out.
DateText(date) == IF date = Construction THEN "2024-06-12" ELSE "2024-06-13"

HourText(hour) == IF hour = 5 THEN "5" ELSE IF hour = 7 THEN "7" ELSE "19"

\* No two slots of the planner have the same key.
KeysDistinct ==
    \A d1 \in PlannerDates \cup RefDates, d2 \in PlannerDates \cup RefDates :
        \A h1 \in 5 .. 23, h2 \in 5 .. 23 :
            day_key(d1, h1) = day_key(d2, h2) => (d1 = d2 /\ h1 = h2)

\* What the slot of the hour shows after the step.
ReadBack(hour) == slot_text([State EXCEPT !.data = data'], hour)

\* C18 as stated: a non-empty text written at (date, hour) is stored under
\* date, "_" and the hour in decimal without padding, and read back as it
\* was written; the empty string written afterwards leaves the key absent
\* and the read empty; no two (date, hour) pairs share a key.
C18_RoundTrip ==
    [][op'.name = "save_slot"
       => /\ KeysDistinct
          /\ \A hour \in Hours, entry \in PlanEntries :
                 SaveSlotWith(hour, entry)
                 => LET key == DateText(day_current_date) \o "_" \o HourText(hour)
                    IN  IF entry # <<>>
                        THEN /\ key \in DOMAIN data'.day_plans
                             /\ data'.day_plans[key] = entry
                             /\ ReadBack(hour) = entry
                        ELSE /\ key \notin DOMAIN data'.day_plans
                             /\ ReadBack(hour) = <<>>]_vars

\* C18, amended: the text is stored and read back without the whitespace
\* around it, and a text of whitespace only is taken as the empty string.
C18_RoundTripStripped ==
    [][op'.name = "save_slot"
       => /\ KeysDistinct
          /\ \A hour \in Hours, entry \in PlanEntries :
                 SaveSlotWith(hour, entry)
                 => LET key == DateText(day_current_date) \o "_" \o HourText(hour)
                    IN  IF ~Blank(entry)
                        THEN /\ key \in DOMAIN data'.day_plans
                             /\ data'.day_plans[key] = strip(entry)
                             /\ ReadBack(hour) = strip(entry)
                        ELSE /\ key \notin DOMAIN data'.day_plans
                             /\ ReadBack(hour) = <<>>]_vars

C18_Witness ==
    /\ op = [name |-> "save_slot", changed |-> TRUE]
    /\ "2024-06-12_7" \in DOMAIN data.day_plans
    /\ data.day_plans["2024-06-12_7"] = <<"y">>

\* C19: next_month in December gives January of the next year and prev_month
\* in January gives December of the year before, in the calendar and in the
\* monthly planner; next_month of 2024-12-15 gives January 2025.
C19_YearRoll ==
    [][/\ next_month(Date(2024, 12, 15)) = [ok |-> TRUE, val |-> Date(2025, 1, 15)]
       /\ (CalendarNextMonth /\ calendar_current_date.month = 12)
          => /\ calendar_current_date'.year = calendar_current_date.year + 1
             /\ calendar_current_date'.month = 1
             /\ event' = "none"
       /\ (CalendarPrevMonth /\ calendar_current_date.month = 1)
          => /\ calendar_current_date'.year = calendar_current_date.year - 1
             /\ calendar_current_date'.month = 12
             /\ event' = "none"
       /\ (MonthlyNextMonth /\ monthly_current_date.month = 12)
          => /\ monthly_current_date'.year = monthly_current_date.year + 1
             /\ monthly_current_date'.month = 1
             /\ event' = "none"
       /\ (MonthlyPrevMonth /\ monthly_current_date.month = 1)
          => /\ monthly_current_date'.year = monthly_current_date.year - 1
             /\ monthly_current_date'.month = 12
             /\ event' = "none"]_vars

C19_Witness ==
    /\ now = Date(2024, 12, 15)
    /\ calendar_current_date = Date(2025, 1, 15)
    /\ monthly_current_date = Date(2025, 1, 15)

\* C20: get_week_start of a date is the Monday of its week, a Monday at most
\* 6 days before the date (2024-06-10 for every day from then to 2024-06-16),
\* and current_week_start is a Monday after every prev_week, next_week and
\* goto_this_week.
C20_Monday ==
    /\ \A day \in 10 .. 16 : get_week_start(Date(2024, 6, day)) = Date(2024, 6, 10)
    /\ weekday(get_week_start(now)) = 0
    /\ toordinal(now) - toordinal(get_week_start(now)) \in 0 .. 6
    /\ weekday(current_week_start) = 0
    /\ (toordinal(current_week_start) - toordinal(Date(2024, 6, 10))) % 7 = 0

C20_Witness ==
    /\ now = Date(2024, 6, 12)
    /\ current_week_start = Date(2024, 6, 3)

NoEmptyTodo == \A i \in 1 .. Len(data.todos) : data.todos[i].text # <<>>

\* C22 as stated: add_todo with a text that is not empty after trimming
\* appends the entry of that text, not done, at the end of the list; with an
\* empty or whitespace-only text it changes and saves nothing; no todo of
\* the list has the empty text.
C22_AddTodo ==
    /\ NoEmptyTodo
    /\ \A entry \in TodoEntries :
           LET n == add_todo(State, entry)
           IN  IF ~Blank(entry)
               THEN /\ n.data.todos = Append(data.todos, [text |-> entry, done |-> FALSE])
                    /\ n.data = [data EXCEPT !.todos = n.data.todos]
               ELSE Same(n)

\* C22, amended: the entry appended has the trimmed text.
C22_AddTodoStripped ==
    /\ NoEmptyTodo
    /\ \A entry \in TodoEntries :
           LET n == add_todo(State, entry)
           IN  IF ~Blank(entry)
               THEN /\ n.data.todos
                           = Append(data.todos, [text |-> strip(entry), done |-> FALSE])
                    /\ n.data = [data EXCEPT !.todos = n.data.todos]
                    /\ n.file = Doc(n)
               ELSE Same(n)

C22_Witness ==
    /\ Len(data.todos) = 2
    /\ data.todos[2] = [text |-> <<"u">>, done |-> FALSE]

\* The handler that ends in the state n changed nothing but the config and
\* the config file, and the file holds the config.
ConfigOnly(n) ==
    /\ n.config_file = n.config
    /\ n.data = data /\ n.file = file /\ n.event = "none"

\* C23: save_position, save_size, change_color and toggle_expand of the
\* widget w change positions[w], sizes[w], colors[w] and expanded[w]
\* respectively and nothing else of the config: the other three maps and the
\* entries of the other widgets stay, and the config file holds the new
\* config when the handler returns.
C23_OneField ==
    \A w \in Widgets :
        /\ \A position \in Positions :
               LET n == save_position(State, w, position)
               IN  /\ Replaced(config.positions, n.config.positions, w, position)
                   /\ n.config = [config EXCEPT !.positions = n.config.positions]
                   /\ n.expanded = expanded
                   /\ ConfigOnly(n)
        /\ \A size \in Sizes :
               LET n == save_size(State, w, size)
               IN  /\ Replaced(config.sizes, n.config.sizes, w, size)
                   /\ n.config = [config EXCEPT !.sizes = n.config.sizes]
                   /\ n.expanded = expanded
                   /\ ConfigOnly(n)
        /\ \A color \in Colors \ {None} :
               LET n == change_color(State, w, color)
               IN  /\ Replaced(config.colors, n.config.colors, w, color[1])
                   /\ n.config = [config EXCEPT !.colors = n.config.colors]
                   /\ n.expanded = expanded
                   /\ ConfigOnly(n)
        /\ LET n == toggle_expand(State, w)
           IN  /\ Replaced(config.expanded, n.config.expanded, w, ~expanded[w])
               /\ n.config = [config EXCEPT !.expanded = n.config.expanded]
               /\ n.expanded = [expanded EXCEPT ![w] = ~expanded[w]]
               /\ ConfigOnly(n)

C23_Witness ==
    /\ config.colors = [w \in Widgets |-> IF w = "todo" THEN "red" ELSE "default"]
    /\ config.expanded = [w \in {"day_planner"} |-> TRUE]
    /\ config.positions = <<>> /\ config.sizes = <<>>
    /\ config_file = config

\* C24: at most one run_timer callback is registered at any time, so that a
\* running timer loses one second per period.
C24_SingleChain == Len(pending) <= 1

\* C25: a callback that runs while the timer is stopped, after a pause or a
\* reset, leaves time_left, the phase and pomodoro_history as they are,
\* also when time_left is 0.
C25_StoppedStays ==
    [][(Tick /\ ~is_running)
       => UNCHANGED <<time_left, is_break, pomodoro_history>>]_vars

\* C26: a Focus phase is counted at most once: a step raises the count of a
\* date by at most 1, and a step that changes pomodoro_history leaves Focus
\* for Break, so that the next count needs a new entry into Focus.
C26_CountedOnce ==
    [][/\ \A d \in Dates : Get(pomodoro_history', d) <= Get(pomodoro_history, d) + 1
       /\ pomodoro_history' # pomodoro_history => (~is_break /\ is_break')]_vars

\* C27 as stated: time_left is between 0 and 60 times the stored duration
\* of the current phase.
C27_TimeBound == 0 <= time_left /\ time_left <= FullTime(settings, is_break)

\* C27, amended: time_left is never negative; a phase completion, a reset
\* and an update_settings accepted while the timer is stopped set it to 60
\* times the stored duration of the phase they leave the timer in; every
\* other step, an update_settings accepted while the timer runs included,
\* leaves the phase and does not raise time_left.
C27_TimeSetOrLowered ==
    [][/\ time_left' >= 0
       /\ IF \/ Completes
             \/ ResetTimer
             \/ (event' = "settings_stored" /\ today' = today /\ ~is_running)
          THEN time_left' = FullTime(settings', is_break')
          ELSE time_left' <= time_left /\ is_break' = is_break]_vars

C27_Witness ==
    /\ ~is_running
    /\ time_left > FullTime(settings, is_break)
    /\ event = "none"

\* The months from year 0 to the month of the date.
Months(d) == 12 * d.year + d.month

\* C28: next_month and prev_month of the calendar and of the monthly planner
\* raise nothing and move the view to the month after and the month before,
\* whatever the day of the date shown, and prev_month after next_month gives
\* the year and month it started from.
C28_MonthMoves ==
    [][/\ CalendarNextMonth
          => /\ event' = "none"
             /\ Months(calendar_current_date') = Months(calendar_current_date) + 1
       /\ CalendarPrevMonth
          => /\ event' = "none"
             /\ Months(calendar_current_date') = Months(calendar_current_date) - 1
       /\ MonthlyNextMonth
          => /\ event' = "none"
             /\ Months(monthly_current_date') = Months(monthly_current_date) + 1
       /\ MonthlyPrevMonth
          => /\ event' = "none"
             /\ Months(monthly_current_date') = Months(monthly_current_date) - 1
       /\ \A d \in {calendar_current_date, monthly_current_date} :
              LET there == next_month(d)
                  back == prev_month(there.val)
              IN  /\ there.ok /\ back.ok
                  /\ Months(back.val) = Months(d)]_vars

\* C29: a started timer that is left to its callbacks completes its phase:
\* from then on the timer is stopped in the other phase and no callback is
\* registered; and a callback is only ever added by a start.
C29_Completes ==
    /\ (LeftAlone /\ is_running /\ ~is_break)
       ~> [](is_break /\ ~is_running /\ pending = <<>>)
    /\ (LeftAlone /\ is_running /\ is_break)
       ~> [](~is_break /\ ~is_running /\ pending = <<>>)
    /\ [][Len(pending') > Len(pending) => (~is_running /\ is_running')]_vars

C29_Witness ==
    /\ LeftAlone
    /\ event = "pomodoro_complete"
    /\ is_break /\ ~is_running /\ pending = <<>>

\* C30: a step leaves the entry of every date but the one it runs on as it
\* is, present or absent, and a step that changes pomodoro_history is a
\* Focus completion, which writes the entry of the date it runs on.
C30_OtherDatesKept ==
    [][/\ \A d \in Dates \ {today} :
              /\ d \in DOMAIN pomodoro_history' <=> d \in DOMAIN pomodoro_history
              /\ Get(pomodoro_history', d) = Get(pomodoro_history, d)
       /\ pomodoro_history' # pomodoro_history
          => /\ Completes /\ ~is_break
             /\ today \in DOMAIN pomodoro_history'
             /\ file'.pomodoro_history = pomodoro_history']_vars

C30_Witness ==
    /\ today # FirstDay
    /\ today \in DOMAIN pomodoro_history
    /\ FirstDay \in DOMAIN pomodoro_history
    /\ pomodoro_history[FirstDay] = 1
    /\ event = "pomodoro_complete"

====
